---- MODULE Spec2Model ----
(***************************************************************************)
(* A model of DelhiAirQualityFetcher (src/cpcb_data.py): the pagination    *)
(* loop of fetch_all_data, the record processor, the pollutant name        *)
(* normaliser and the station aggregation of aggregate_by_station.         *)
(*                                                                         *)
(* Python strings are TLA+ strings; Len, \o and SubSeq are used on them.   *)
(* Every Python value that can sit in a dictionary next to values of       *)
(* another type is a record with a "kind" field: None, str, int, float.    *)
(***************************************************************************)
EXTENDS Integers, Sequences, FiniteSets, TLC

(***************************************************************************)
(* Bounds of the model.                                                    *)
(***************************************************************************)
\* longest input list given to aggregate_by_station
MaxLen == 3
\* max_records ranges over the multiples of the page size up to this many
\* pages, and one record less and one record more than each
MaxCapPages == 2
\* longest label generated for normalize_pollutant_name
MaxLabelLen == 3

(***************************************************************************)
(* Python values.                                                          *)
(***************************************************************************)
None == [kind |-> "None"]

Str(s) == [kind |-> "str", s |-> s]

Int_(n) == [kind |-> "int", n |-> n]

\* a finite float m / 10^e, e >= 0, in lowest terms (m not divisible by 10
\* unless e = 0)
Num(m, e) == [kind |-> "float", m |-> m, e |-> e]

NaN == [kind |-> "nan"]

Inf(neg) == [kind |-> "inf", neg |-> neg]

ValueError == [kind |-> "ValueError"]

IsFinite(v) == v.kind = "float"

(***************************************************************************)
(* str methods.                                                            *)
(***************************************************************************)
Char(s, i) == SubSeq(s, i, i)

Rest(s) == SubSeq(s, 2, Len(s))

Whitespace == {" ", "\t", "\n", "\r"}

UpperCase == "ABCDEFGHIJKLMNOPQRSTUVWXYZ"

LowerCase == "abcdefghijklmnopqrstuvwxyz"

Digits == "0123456789"

\* the lower-case letter of every upper-case letter
LowerOf ==
  [c \in {Char(UpperCase, k) : k \in 1..Len(UpperCase)} |->
     Char(LowerCase, CHOOSE k \in 1..Len(UpperCase) : Char(UpperCase, k) = c)]

\* the value of every decimal digit
DigitOf ==
  [c \in {Char(Digits, k) : k \in 1..Len(Digits)} |->
     (CHOOSE k \in 1..Len(Digits) : Char(Digits, k) = c) - 1]

LowerChar(c) == IF c \in DOMAIN LowerOf THEN LowerOf[c] ELSE c

RECURSIVE lower(_)
lower(s) == IF s = "" THEN "" ELSE LowerChar(Char(s, 1)) \o lower(Rest(s))

RECURSIVE replace(_, _, _)
replace(s, old, new) ==
  IF s = "" THEN ""
  ELSE (IF Char(s, 1) = old THEN new ELSE Char(s, 1)) \o replace(Rest(s), old, new)

RECURSIVE lstrip(_)
lstrip(s) ==
  IF s # "" /\ Char(s, 1) \in Whitespace THEN lstrip(Rest(s)) ELSE s

RECURSIVE rstrip(_)
rstrip(s) ==
  IF s # "" /\ Char(s, Len(s)) \in Whitespace
  THEN rstrip(SubSeq(s, 1, Len(s) - 1)) ELSE s

strip(s) == rstrip(lstrip(s))

EndsWith(s, suf) ==
  Len(s) >= Len(suf) /\ SubSeq(s, Len(s) - Len(suf) + 1, Len(s)) = suf

(***************************************************************************)
(* float(str): surrounding whitespace is ignored, then an optional sign,   *)
(* then nan, inf or infinity in any case, or a decimal numeral with at     *)
(* least one digit and at most one point.  Anything else is a ValueError.  *)
(* Exponents and digit-group underscores are not in the input alphabet of  *)
(* this model.                                                             *)
(***************************************************************************)
RECURSIVE IsDigits(_)
IsDigits(s) ==
  s = "" \/ (Char(s, 1) \in DOMAIN DigitOf /\ IsDigits(Rest(s)))

RECURSIVE DigitsValue(_, _)
DigitsValue(s, acc) ==
  IF s = "" THEN acc
  ELSE DigitsValue(Rest(s), 10 * acc + DigitOf[Char(s, 1)])

PointAt(s) ==
  IF \E k \in 1..Len(s) : Char(s, k) = "."
  THEN CHOOSE k \in 1..Len(s) : Char(s, k) = "."
  ELSE 0

RECURSIVE Normal(_, _)
Normal(m, e) ==
  IF e > 0 /\ m % 10 = 0 THEN Normal(m \div 10, e - 1) ELSE Num(m, e)

ParseDecimal(body, neg) ==
  LET p    == PointAt(body)
      ip   == IF p = 0 THEN body ELSE SubSeq(body, 1, p - 1)
      fp   == IF p = 0 THEN "" ELSE SubSeq(body, p + 1, Len(body))
      sign == IF neg THEN -1 ELSE 1
  IN IF IsDigits(ip) /\ IsDigits(fp) /\ Len(ip) + Len(fp) > 0
     THEN Normal(sign * DigitsValue(ip \o fp, 0), Len(fp))
     ELSE ValueError

float(s) ==
  LET t    == strip(s)
      sgn  == t # "" /\ Char(t, 1) \in {"+", "-"}
      neg  == t # "" /\ Char(t, 1) = "-"
      body == IF sgn THEN Rest(t) ELSE t
  IN IF lower(body) = "nan" THEN NaN
     ELSE IF lower(body) \in {"inf", "infinity"} THEN Inf(neg)
     ELSE ParseDecimal(body, neg)

\* bool(x) of a float or None, as in `if station_info['latitude']`
Truthy(v) == v # None /\ ~(v.kind = "float" /\ v.m = 0)

(***************************************************************************)
(* normalize_pollutant_name                                                *)
(***************************************************************************)
pollutant_map ==
  [id \in {"PM2.5", "PM10", "O3", "Ozone", "NO2", "SO2", "CO", "NH3", "Ammonia",
           "Pb", "Lead", "Benzene", "Toluene", "Xylene", "MP-Xylene",
           "Eth-Benzene"} |->
     CASE id = "PM2.5"       -> "pm25"
       [] id = "PM10"        -> "pm10"
       [] id = "O3"          -> "o3"
       [] id = "Ozone"       -> "o3"
       [] id = "NO2"         -> "no2"
       [] id = "SO2"         -> "so2"
       [] id = "CO"          -> "co"
       [] id = "NH3"         -> "nh3"
       [] id = "Ammonia"     -> "nh3"
       [] id = "Pb"          -> "pb"
       [] id = "Lead"        -> "pb"
       [] id = "Benzene"     -> "benzene"
       [] id = "Toluene"     -> "toluene"
       [] id = "Xylene"      -> "xylene"
       [] id = "MP-Xylene"   -> "mp_xylene"
       [] id = "Eth-Benzene" -> "eth_benzene"]

\* a variant whose fallback leaves the spaces in place
normalize_pollutant_name_hyphens_only(pollutant_id) ==
  IF pollutant_id \in DOMAIN pollutant_map
  THEN pollutant_map[pollutant_id]
  ELSE replace(lower(pollutant_id), "-", "_")

normalize_pollutant_name(pollutant_id) ==
  IF pollutant_id \in DOMAIN pollutant_map
  THEN pollutant_map[pollutant_id]
  ELSE replace(replace(lower(pollutant_id), "-", "_"), " ", "_")

target_pollutants == {"pm25", "pm10", "o3", "no2", "so2", "co", "nh3"}

\* the unit stored when the record carries none
DefaultUnit == "ug/m3"

(***************************************************************************)
(* The state: the fields of the fetcher, the locals of fetch_all_data and  *)
(* of aggregate_by_station, and the position of the run.                   *)
(***************************************************************************)
VARIABLES
  pc,                  \* position of the run
  openweather_api_key, \* TRUE when the fetcher was built with a weather key
  raw_data,            \* self.raw_data; the argument of aggregate_by_station
  aggregated_data,     \* self.aggregated_data
  weather_data,        \* self.weather_data
  max_records,         \* the argument of fetch_all_data
  offset,              \* fetch_all_data: offset
  total_fetched,       \* fetch_all_data: total_fetched
  batch_data,          \* fetch_all_data: the batch last returned
  pages_requested,     \* number of calls of fetch_data_batch made so far
  idx,                 \* aggregate_by_station: records consumed by the loop
  station_data,        \* aggregate_by_station: station_data, in insertion order
  emitted,             \* aggregate_by_station: stations visited by the output loop
  aggregated,          \* aggregate_by_station: aggregated
  label,               \* normalize_pollutant_name: the argument pollutant_id
  normalized,          \* normalize_pollutant_name: the value returned
  csv_file             \* save_to_csv: the table written, None while there is none

vars == <<pc, openweather_api_key, raw_data, aggregated_data, weather_data,
          max_records, offset, total_fetched, batch_data, pages_requested,
          idx, station_data, emitted, aggregated,
          label, normalized, csv_file>>

fetch_vars == <<max_records, offset, total_fetched, batch_data, pages_requested>>

out_vars == <<label, normalized, csv_file>>

(***************************************************************************)
(* fetch_weather_data: what one enrichment call can return.                *)
(***************************************************************************)
JsonValue == [kind |-> "json"]

WeatherOutcomes == {"error", "current", "current_pollution"}

CurrentKeys ==
  {"weather_timestamp", "weather_main", "weather_description", "temperature",
   "feels_like", "humidity", "pressure", "visibility", "wind_speed",
   "wind_direction", "wind_gust", "cloudiness", "uv_index", "sunrise", "sunset"}

PollutionKeys ==
  {"openweather_aqi", "ow_co", "ow_no", "ow_no2", "ow_o3", "ow_so2", "ow_pm25",
   "ow_pm10", "ow_nh3"}

\* the dictionary returned: {} on an error, else the current weather (wind
\* gust is absent from a response without pollution data here), with the
\* pollution components when the second request gave any
fetch_weather_data(outcome) ==
  IF outcome = "error" THEN <<>>
  ELSE [k \in CurrentKeys \cup
              (IF outcome = "current_pollution" THEN PollutionKeys ELSE {}) |->
          IF k = "uv_index" THEN None
          ELSE IF k = "wind_gust" /\ outcome = "current" THEN None
          ELSE JsonValue]

(***************************************************************************)
(* aggregate_by_station, the loop over the records.                        *)
(***************************************************************************)
station_key(record) ==
  <<record.station_name, record.latitude, record.longitude>>

HasStation(sd, key) == \E i \in 1..Len(sd) : sd[i].key = key

StationIndex(sd, key) == CHOOSE i \in 1..Len(sd) : sd[i].key = key

\* `if not record['pollutant_id'] or not record['pollutant_avg']: continue`
SkipRecord(record) == record.pollutant_id = "" \/ record.pollutant_avg = ""

\* `float(x) if x else None`
FloatOrNone(x) == IF x # "" THEN float(x) ELSE None

\* the station record of a key not seen before
NewStation(record) ==
  [key          |-> station_key(record),
   station_name |-> strip(record.station_name),
   city         |-> strip(record.city),
   state        |-> strip(record.state),
   latitude     |-> FloatOrNone(record.latitude),
   longitude    |-> FloatOrNone(record.longitude),
   last_update  |-> IF record.last_update # "" THEN strip(record.last_update) ELSE "",
   pollutants   |-> <<>>]

\* building the station record raises: float() is called outside any try
NewStationRaises(station_info) ==
  \/ station_info.latitude = ValueError
  \/ station_info.longitude = ValueError

\* the body of the try: the three conversions, then the measurement
Measurement(record) ==
  [min  |-> FloatOrNone(record.pollutant_min),
   max  |-> FloatOrNone(record.pollutant_max),
   avg  |-> FloatOrNone(record.pollutant_avg),
   unit |-> IF record.pollutant_unit # "" THEN strip(record.pollutant_unit)
            ELSE DefaultUnit]

\* a variant that looks at the average alone
ConversionFails_avg_only(m) == m.avg = ValueError

\* one of the conversions raised: `except (ValueError, TypeError): continue`
ConversionFails(m) ==
  m.min = ValueError \/ m.max = ValueError \/ m.avg = ValueError

\* `if avg_val is not None`
Storable(m) == m.avg # None

\* a variant that keeps the measurement already stored
StorePollutant_first_wins(pollutants, pollutant_name, m) ==
  pollutants @@ (pollutant_name :> m)

\* `station_data[station_key]['pollutants'][pollutant_name] = {...}`
StorePollutant(pollutants, pollutant_name, m) ==
  (pollutant_name :> m) @@ pollutants

\* a variant without the allow-list
IsTarget_any(pollutant_name) == TRUE

\* `if pollutant_name in target_pollutants`
IsTarget(pollutant_name) == pollutant_name \in target_pollutants

\* the pollutant mapping of a station after the record's observation
WithObservation(pollutants, record) ==
  LET pollutant_name == normalize_pollutant_name(record.pollutant_id)
      m              == Measurement(record)
  IN IF IsTarget(pollutant_name) /\ ~ConversionFails(m) /\ Storable(m)
     THEN StorePollutant(pollutants, pollutant_name, m)
     ELSE pollutants

\* one iteration of `for record in raw_data`: station_data after it, and
\* whether the iteration raised out of the function
AggregateRecord(sd, record) ==
  LET key   == station_key(record)
      seen  == HasStation(sd, key)
      shell == NewStation(record)
      sd1   == IF seen THEN sd ELSE Append(sd, shell)
      i     == StationIndex(sd1, key)
  IN IF SkipRecord(record) THEN [raised |-> FALSE, station_data |-> sd]
     ELSE IF ~seen /\ NewStationRaises(shell)
     THEN [raised |-> TRUE, station_data |-> sd]
     ELSE [raised       |-> FALSE,
           station_data |->
             [sd1 EXCEPT ![i].pollutants = WithObservation(@, record)]]

(***************************************************************************)
(* aggregate_by_station, the loop over the stations.                       *)
(***************************************************************************)
\* a variant that emits every station
Survives_always(station_info) == TRUE

\* `if not station_info['pollutants']: continue` is not taken
Survives(station_info) == DOMAIN station_info.pollutants # {}

\* the weather request is made for this station
WantsWeather(key, station_info) ==
  key /\ Truthy(station_info.latitude) /\ Truthy(station_info.longitude)

ColumnSuffixes == {"_min", "_max", "_avg", "_unit"}

\* the four columns of every pollutant of the mapping
PollutantColumns(pollutants) ==
  LET names == {p \o suf : p \in DOMAIN pollutants, suf \in ColumnSuffixes}
  IN [c \in names |->
        LET p == CHOOSE q \in DOMAIN pollutants :
                   \E suf \in ColumnSuffixes : c = q \o suf
        IN CASE c = p \o "_min"  -> pollutants[p].min
             [] c = p \o "_max"  -> pollutants[p].max
             [] c = p \o "_avg"  -> pollutants[p].avg
             [] c = p \o "_unit" -> Str(pollutants[p].unit)]

\* a variant that counts the allow-list instead of the pollutants present
BaseColumns_counts_targets(station_info) ==
  [station_name |-> Str(station_info.station_name),
   city         |-> Str(station_info.city),
   state        |-> Str(station_info.state),
   latitude     |-> station_info.latitude,
   longitude    |-> station_info.longitude,
   last_update  |-> Str(station_info.last_update),
   total_pollutants_monitored |-> Int_(Cardinality(target_pollutants))]

BaseColumns(station_info) ==
  [station_name |-> Str(station_info.station_name),
   city         |-> Str(station_info.city),
   state        |-> Str(station_info.state),
   latitude     |-> station_info.latitude,
   longitude    |-> station_info.longitude,
   last_update  |-> Str(station_info.last_update),
   total_pollutants_monitored |->
     Int_(Cardinality(DOMAIN station_info.pollutants))]

\* the record built for one surviving station; weather is the dictionary
\* merged into it (empty when no request is made)
clean_record(station_info, weather) ==
  PollutantColumns(station_info.pollutants) @@ weather @@ BaseColumns(station_info)

(***************************************************************************)
(* aggregate_by_station as one call: FoldRecords is the loop over the      *)
(* records in input order, EmitAll the loop over the stations in insertion *)
(* order.  weather[i] is what the enrichment request of the i-th station   *)
(* returns when one is made.                                               *)
(***************************************************************************)
\* records[lo..hi] consumed in order from station_data sd; the range is
\* halved so that the evaluation never nests deeper than its logarithm
RECURSIVE FoldRange(_, _, _, _)
FoldRange(sd, records, lo, hi) ==
  IF lo > hi THEN [raised |-> FALSE, station_data |-> sd]
  ELSE IF lo = hi THEN AggregateRecord(sd, records[lo])
  ELSE LET mid  == (lo + hi) \div 2
           left == FoldRange(sd, records, lo, mid)
       IN IF left.raised THEN left
          ELSE FoldRange(left.station_data, records, mid + 1, hi)

\* `for record in raw_data: ...`, from an empty station_data
FoldRecords(records) == FoldRange(<<>>, records, 1, Len(records))

\* the dictionary merged into the record of a station
WeatherFor(key, station_info, outcome) ==
  IF WantsWeather(key, station_info) THEN fetch_weather_data(outcome) ELSE <<>>

RECURSIVE EmitAll(_, _, _, _)
EmitAll(sd, key, weather, i) ==
  IF i > Len(sd) THEN <<>>
  ELSE (IF Survives(sd[i])
        THEN <<clean_record(sd[i], WeatherFor(key, sd[i], weather[i]))>>
        ELSE <<>>) \o EmitAll(sd, key, weather, i + 1)

(***************************************************************************)
(* process_record.  A RawApiRecord is a function from the keys it carries  *)
(* to strings.  The two capture timestamps are not part of the model.      *)
(***************************************************************************)
Get(record, k, default) == IF k \in DOMAIN record THEN record[k] ELSE default

process_record(record) ==
  [station_id     |-> Get(record, "id", ""),
   station_name   |-> Get(record, "station", ""),
   city           |-> Get(record, "city", "Delhi"),
   state          |-> Get(record, "state", "Delhi"),
   country        |-> Get(record, "country", "India"),
   latitude       |-> Get(record, "latitude", ""),
   longitude      |-> Get(record, "longitude", ""),
   last_update    |-> Get(record, "last_update", ""),
   pollutant_id   |-> Get(record, "pollutant_id", ""),
   pollutant_min  |-> Get(record, "min_value", ""),
   pollutant_max  |-> Get(record, "max_value", ""),
   pollutant_avg  |-> Get(record, "avg_value", ""),
   pollutant_unit |-> Get(record, "pollutant_unit", "")]

(***************************************************************************)
(* The upstream records the model draws from.                              *)
(***************************************************************************)
Raw(station, lat, lon, pollutant_id, mn, mx, avg, unit) ==
  [id |-> "7", station |-> station, city |-> "Delhi ", state |-> "Delhi",
   country |-> "India", latitude |-> lat, longitude |-> lon,
   last_update |-> "01-01-2025 10:00:00", pollutant_id |-> pollutant_id,
   min_value |-> mn, max_value |-> mx, avg_value |-> avg,
   pollutant_unit |-> unit]

\* a record carrying only some of the keys
Sparse(station, lat, lon, pollutant_id, avg) ==
  [station |-> station, latitude |-> lat, longitude |-> lon,
   pollutant_id |-> pollutant_id, avg_value |-> avg]

RawPool ==
  { Raw("A", "1.0", "2.0", "PM2.5", "40", "70", "55", "ppm"),
    Sparse("A", "1.0", "2.0", "pm25", "60"),
    Raw("A", "1.0", "2.0", "Ozone", "1", "2", "x", ""),
    Raw("A", "1.0", "2.0", "Benzene", "1", "2", "5", "u"),
    Raw("A", "1.0", "2.0", "NO2", "x", "2", "5", ""),
    Raw("A", "1.0", "2.0", "NO2", "1", "2", "nan", ""),
    Raw("A", "1.0", "2.0", "SO2", "", "", "-Inf", ""),
    Raw("A", "1.0", "2.0", "", "1", "2", "5", ""),
    Raw("A", "1.0", "2.0", "O3", "1", "2", "", ""),
    Raw("A", "1.0", "2.0", "NO2", "1", "2.50", " 7 ", " ppb "),
    Raw("A ", "1", "2.0", "PM2.5", "40", "70", "55", "ppm"),
    Raw("A ", "1", "2.0", "Benzene", "1", "2", "5", "u"),
    Sparse("B", "", "", "CO", "0.5"),
    Raw("C", "abc", "2.0", "PM2.5", "40", "70", "55", "ppm"),
    Raw("C", "abc", "2.0", "", "40", "70", "55", "ppm") }

FlatPool == {process_record(r) : r \in RawPool}

\* the lists of at most n records of the pool
RECURSIVE ListsUpTo(_, _)
ListsUpTo(pool, n) ==
  IF n = 0 THEN {<<>>}
  ELSE LET shorter == ListsUpTo(pool, n - 1)
       IN shorter \cup {Append(l, r) : l \in shorter, r \in pool}

(***************************************************************************)
(* SpecAgg: one call of aggregate_by_station on a list of FlatRecords,     *)
(* one loop iteration per step.                                            *)
(***************************************************************************)
InitAgg ==
  /\ pc = "loop"
  /\ openweather_api_key \in BOOLEAN
  /\ raw_data \in ListsUpTo(FlatPool, MaxLen)
  /\ aggregated_data = <<>>
  /\ weather_data = <<>>
  /\ max_records = 0
  /\ offset = 0
  /\ total_fetched = 0
  /\ batch_data = None
  /\ pages_requested = 0
  /\ idx = 0
  /\ station_data = <<>>
  /\ emitted = 0
  /\ aggregated = <<>>
  /\ label = None
  /\ normalized = None
  /\ csv_file = None

\* one iteration of `for record in raw_data`
RecordStep ==
  /\ pc = "loop"
  /\ idx < Len(raw_data)
  /\ LET r == AggregateRecord(station_data, raw_data[idx + 1])
     IN IF r.raised
        THEN /\ pc' = "raised"
             /\ UNCHANGED <<idx, station_data>>
        ELSE /\ pc' = "loop"
             /\ idx' = idx + 1
             /\ station_data' = r.station_data
  /\ UNCHANGED <<openweather_api_key, raw_data, aggregated_data, weather_data,
                 emitted, aggregated>>
  /\ UNCHANGED fetch_vars
  /\ UNCHANGED out_vars

\* the records are exhausted: `aggregated = []`
RecordsDone ==
  /\ pc = "loop"
  /\ idx = Len(raw_data)
  /\ pc' = "emit"
  /\ aggregated' = <<>>
  /\ UNCHANGED <<openweather_api_key, raw_data, aggregated_data, weather_data,
                 idx, station_data, emitted>>
  /\ UNCHANGED fetch_vars
  /\ UNCHANGED out_vars

\* one iteration of `for station_info in station_data.values()`
StationStep ==
  /\ pc = "emit"
  /\ emitted < Len(station_data)
  /\ LET station_info == station_data[emitted + 1]
     IN IF Survives(station_info)
        THEN \E outcome \in WeatherOutcomes :
               aggregated' = Append(aggregated,
                 clean_record(station_info,
                   WeatherFor(openweather_api_key, station_info, outcome)))
        ELSE aggregated' = aggregated
  /\ emitted' = emitted + 1
  /\ UNCHANGED <<pc, openweather_api_key, raw_data, aggregated_data,
                 weather_data, idx, station_data>>
  /\ UNCHANGED fetch_vars
  /\ UNCHANGED out_vars

\* `return aggregated`
ReturnAggregated ==
  /\ pc = "emit"
  /\ emitted = Len(station_data)
  /\ pc' = "returned"
  /\ UNCHANGED <<openweather_api_key, raw_data, aggregated_data, weather_data,
                 idx, station_data, emitted, aggregated>>
  /\ UNCHANGED fetch_vars
  /\ UNCHANGED out_vars

NextAgg == RecordStep \/ RecordsDone \/ StationStep \/ ReturnAggregated

SpecAgg == InitAgg /\ [][NextAgg]_vars

(***************************************************************************)
(* Properties of aggregate_by_station, checked under SpecAgg.              *)
(***************************************************************************)
AllowList == {"pm25", "pm10", "o3", "no2", "so2", "co", "nh3"}

Prefix(c, suf) == SubSeq(c, 1, Len(c) - Len(suf))

\* the record reaches the store: it is not skipped, its pollutant is on the
\* allow-list and its three values convert
Yields(record) ==
  /\ record.pollutant_id # ""
  /\ record.pollutant_avg # ""
  /\ normalize_pollutant_name(record.pollutant_id) \in AllowList
  /\ \A x \in {record.pollutant_min, record.pollutant_max, record.pollutant_avg} :
       x = "" \/ float(x) # ValueError

\* the record is on the allow-list and one of its three values does not
\* convert
ParseFails(record) ==
  /\ record.pollutant_id # ""
  /\ record.pollutant_avg # ""
  /\ normalize_pollutant_name(record.pollutant_id) \in AllowList
  /\ \E x \in {record.pollutant_min, record.pollutant_max, record.pollutant_avg} :
       x # "" /\ float(x) = ValueError

SameSlot(a, b) ==
  /\ station_key(a) = station_key(b)
  /\ normalize_pollutant_name(a.pollutant_id) =
       normalize_pollutant_name(b.pollutant_id)

\* the position in the output of the k-th station of station_data
RowOf(k) ==
  Cardinality({i \in 1..k : DOMAIN station_data[i].pollutants # {}})

\* the columns of a record that hold a non-null average
AvgColumns(rec) == {c \in DOMAIN rec : EndsWith(c, "_avg") /\ rec[c] # None}

\* C1: every emitted record's total_pollutants_monitored is the number of
\* pollutant keys for which the record carries a non-null <pollutant>_avg.
C1_TotalCountsAvgColumns ==
  \A n \in 1..Len(aggregated) :
    aggregated[n]["total_pollutants_monitored"] =
      Int_(Cardinality(AvgColumns(aggregated[n])))

\* a weather-enriched record with two pollutants has been returned
C1_Witness ==
  /\ pc = "returned"
  /\ \E n \in 1..Len(aggregated) :
       /\ aggregated[n]["total_pollutants_monitored"] = Int_(2)
       /\ "ow_co" \in DOMAIN aggregated[n]

\* C2: last write wins.  When two records of the input have the same
\* station key and the same normalised allow-listed pollutant and both
\* convert, the returned output holds one station of that key, and its
\* measurement of that pollutant (mapping and the four columns) is that of
\* the later record, the last such record of the input.
C2_LastWriteWins ==
  pc = "returned" =>
    \A i, j \in 1..Len(raw_data) :
      ( /\ i < j
        /\ Yields(raw_data[i]) /\ Yields(raw_data[j])
        /\ SameSlot(raw_data[i], raw_data[j])
        /\ \A l \in (j + 1)..Len(raw_data) :
             ~(Yields(raw_data[l]) /\ SameSlot(raw_data[l], raw_data[j])) )
      => LET key == station_key(raw_data[j])
             p   == normalize_pollutant_name(raw_data[j].pollutant_id)
             ks  == {k \in 1..Len(station_data) : station_data[k].key = key}
             m   == [min  |-> FloatOrNone(raw_data[j].pollutant_min),
                     max  |-> FloatOrNone(raw_data[j].pollutant_max),
                     avg  |-> FloatOrNone(raw_data[j].pollutant_avg),
                     unit |-> IF raw_data[j].pollutant_unit # ""
                              THEN strip(raw_data[j].pollutant_unit)
                              ELSE DefaultUnit]
         IN /\ Cardinality(ks) = 1
            /\ \A k \in ks :
                 /\ p \in DOMAIN station_data[k].pollutants
                 /\ station_data[k].pollutants[p] = m
                 /\ RowOf(k) \in 1..Len(aggregated)
                 /\ LET row == aggregated[RowOf(k)]
                    IN /\ row[p \o "_min"] = m.min
                       /\ row[p \o "_max"] = m.max
                       /\ row[p \o "_avg"] = m.avg
                       /\ row[p \o "_unit"] = Str(m.unit)

\* PM2.5 55 ppm then pm25 60 without unit for station A: 60 is returned
C2_Witness ==
  /\ pc = "returned"
  /\ Len(raw_data) >= 2
  /\ raw_data[1].pollutant_id = "PM2.5" /\ raw_data[1].pollutant_avg = "55"
  /\ raw_data[2].pollutant_id = "pm25" /\ raw_data[2].pollutant_avg = "60"
  /\ station_key(raw_data[1]) = station_key(raw_data[2])
  /\ Len(aggregated) >= 1
  /\ aggregated[1]["pm25_avg"] = Num(60, 0)
  /\ aggregated[1]["pm25_min"] = None
  /\ aggregated[1]["pm25_unit"] = Str(DefaultUnit)

\* the records of the input that introduce a station key which some record
\* of the input gives a stored measurement, in input order
IntroducesSurvivor(i) ==
  /\ raw_data[i].pollutant_id # "" /\ raw_data[i].pollutant_avg # ""
  /\ \A j \in 1..(i - 1) :
       \/ raw_data[j].pollutant_id = "" \/ raw_data[j].pollutant_avg = ""
       \/ station_key(raw_data[j]) # station_key(raw_data[i])
  /\ \E j \in 1..Len(raw_data) :
       /\ station_key(raw_data[j]) = station_key(raw_data[i])
       /\ Yields(raw_data[j])

ExpectedStations ==
  SelectSeq([i \in 1..Len(raw_data) |-> i], IntroducesSurvivor)

\* C3: a station none of whose records yields a stored measurement is not
\* in the output: the returned rows are, in order, exactly the stations
\* that some record gives a stored measurement.
C3_OnlyStationsWithMeasurements ==
  pc = "returned" =>
    /\ Len(aggregated) = Len(ExpectedStations)
    /\ \A n \in 1..Len(aggregated) :
         LET r == raw_data[ExpectedStations[n]]
         IN /\ aggregated[n]["station_name"] = Str(strip(r.station_name))
            /\ aggregated[n]["latitude"] = FloatOrNone(r.latitude)
            /\ aggregated[n]["longitude"] = FloatOrNone(r.longitude)

\* a station was created for records that store nothing, it is left out of
\* an output that holds another station
C3_Witness ==
  /\ pc = "returned"
  /\ Len(aggregated) >= 1
  /\ Len(station_data) > Len(aggregated)

\* C4: no emitted record has a <pollutant>_min/_max/_avg/_unit column for
\* a pollutant key outside the allow-list.
C4_OnlyAllowListColumns ==
  \A n \in 1..Len(aggregated) :
    \A c \in DOMAIN aggregated[n] :
      \A suf \in {"_min", "_max", "_avg", "_unit"} :
        EndsWith(c, suf) => Prefix(c, suf) \in AllowList

\* a station with a Benzene record and an allow-listed one was returned,
\* weather columns included
C4_Witness ==
  /\ pc = "returned"
  /\ \E i \in 1..Len(raw_data), k \in 1..Len(station_data) :
       /\ raw_data[i].pollutant_id = "Benzene"
       /\ station_data[k].key = station_key(raw_data[i])
       /\ DOMAIN station_data[k].pollutants # {}
       /\ "ow_pm25" \in DOMAIN aggregated[RowOf(k)]

\* C5: a coordinate that is empty or does not convert gives a null
\* coordinate, and the aggregation never raises.
C5_NullCoordinateNeverRaises ==
  /\ pc # "raised"
  /\ \A k \in 1..Len(station_data) :
       /\ (station_data[k].key[2] = "" \/ float(station_data[k].key[2]) = ValueError)
            => station_data[k].latitude = None
       /\ (station_data[k].key[3] = "" \/ float(station_data[k].key[3]) = ValueError)
            => station_data[k].longitude = None

\* C6: a measurement in a station's pollutant mapping has a finite average.
C6_StoredAverageIsFinite ==
  \A k \in 1..Len(station_data) :
    \A p \in DOMAIN station_data[k].pollutants :
      IsFinite(station_data[k].pollutants[p].avg)

\* C7: no two emitted records have the same station name, latitude and
\* longitude.
C7_OneRowPerStation ==
  \A m, n \in 1..Len(aggregated) :
    m # n =>
      <<aggregated[m]["station_name"], aggregated[m]["latitude"],
        aggregated[m]["longitude"]>>
      # <<aggregated[n]["station_name"], aggregated[n]["latitude"],
          aggregated[n]["longitude"]>>

\* the iteration about to run fails to convert min, max or avg of an
\* allow-listed record whose station exists or can be created
C8_FailingIteration ==
  /\ pc = "loop"
  /\ idx < Len(raw_data)
  /\ ParseFails(raw_data[idx + 1])
  /\ \/ \E k \in 1..Len(station_data) :
          station_data[k].key = station_key(raw_data[idx + 1])
     \/ /\ FloatOrNone(raw_data[idx + 1].latitude) # ValueError
        /\ FloatOrNone(raw_data[idx + 1].longitude) # ValueError

\* C8: an iteration whose min, max or avg fails to convert stores nothing
\* (a valid avg included), leaves every measurement stored before as it
\* was, and hands over to the next record; a call that returns has
\* consumed every record.
C8_ParseFailureDropsOneObservation ==
  /\ [][C8_FailingIteration =>
          /\ pc' = "loop"
          /\ idx' = idx + 1
          /\ Len(station_data') \in {Len(station_data), Len(station_data) + 1}
          /\ \A k \in 1..Len(station_data) : station_data'[k] = station_data[k]
          /\ \A k \in (Len(station_data) + 1)..Len(station_data') :
               DOMAIN station_data'[k].pollutants = {}]_vars
  /\ [](pc = "returned" => idx = Len(raw_data))

\* NO2 7 is stored, the next record (NO2, min x, avg 5) is dropped with 7
\* still stored, and the record after it has been stored too
C8_Witness ==
  \E i \in 2..(idx - 1) :
    /\ ParseFails(raw_data[i])
    /\ raw_data[i].pollutant_min = "x" /\ raw_data[i].pollutant_avg = "5"
    /\ Yields(raw_data[i - 1]) /\ SameSlot(raw_data[i - 1], raw_data[i])
    /\ Yields(raw_data[i + 1]) /\ ~SameSlot(raw_data[i + 1], raw_data[i])
    /\ station_key(raw_data[i + 1]) = station_key(raw_data[i])
    /\ \E k \in 1..Len(station_data) :
         /\ station_data[k].key = station_key(raw_data[i])
         /\ station_data[k].pollutants["no2"].avg = Num(7, 0)
         /\ normalize_pollutant_name(raw_data[i + 1].pollutant_id)
              \in DOMAIN station_data[k].pollutants

(***************************************************************************)
(* Spec: one call of fetch_all_data(max_records) on a fresh fetcher, then  *)
(* one call of save_to_csv.                                                *)
(***************************************************************************)
\* `limit = 100  # API limit per request`
limit == 100

\* what fetch_data_batch can return: None after a transport or decode
\* error, else the decoded body
EmptyBody == [kind |-> "dict", keys |-> {}]

NoRecordsBody == [kind |-> "dict", keys |-> {"status", "message"}]

RecordsBody(records) ==
  [kind |-> "dict", keys |-> {"status", "records"}, records |-> records]

Page(record, n) == [i \in 1..n |-> record]

PageSizes == {0, 1, limit - 1, limit}

\* the upstream records the pages are made of
FetchPool ==
  { Raw("A", "1.0", "2.0", "PM2.5", "40", "70", "55", "ppm"),
    Sparse("B", "", "", "CO", "0.5"),
    Raw("C", "abc", "2.0", "PM2.5", "40", "70", "55", "ppm") }

Responses ==
  {None, EmptyBody, NoRecordsBody}
    \cup {RecordsBody(Page(r, n)) : r \in FetchPool, n \in PageSizes}

MaxRecordsChoices ==
  {c \in {k * limit + d : k \in 0..MaxCapPages, d \in {-1, 0, 1}} : c >= 0}

\* `if not batch_data`
NoData(batch) == batch = None \/ batch.keys = {}

\* a variant that never takes the branch
NoRecordsField_never(batch) == FALSE

\* `if 'records' not in batch_data`
NoRecordsField(batch) == "records" \notin batch.keys

\* `batch_data['records']` raises KeyError
RecordsKeyError(batch) == "records" \notin batch.keys

\* a variant that also runs when the cap has just been reached
LoopGuard_at_cap(total, cap) == total <= cap

\* `while total_fetched < max_records`
LoopGuard(total, cap) == total < cap

\* a variant that appends nothing
IngestCount_none(records, total, cap) == 0

\* the number of records of the page appended before the inner loop ends:
\* a record is appended, then the loop breaks once
\* total_fetched >= max_records
IngestCount(records, total, cap) ==
  IF Len(records) <= cap - total THEN Len(records)
  ELSE IF cap - total >= 1 THEN cap - total
  ELSE 1

\* the page processed record by record and appended to raw_data
Ingest(raw, records, n) ==
  raw \o [i \in 1..n |-> process_record(records[i])]

Init ==
  /\ pc = "fetch"
  /\ openweather_api_key \in BOOLEAN
  /\ raw_data = <<>>
  /\ aggregated_data = <<>>
  /\ weather_data = <<>>
  /\ max_records \in MaxRecordsChoices
  /\ offset = 0
  /\ total_fetched = 0
  /\ batch_data = None
  /\ pages_requested = 0
  /\ idx = 0
  /\ station_data = <<>>
  /\ emitted = 0
  /\ aggregated = <<>>
  /\ label = None
  /\ normalized = None
  /\ csv_file = None

agg_vars == <<idx, station_data, emitted, aggregated>>

\* one iteration of the while loop: a page is requested and handled
FetchPage ==
  /\ pc = "fetch"
  /\ LoopGuard(total_fetched, max_records)
  /\ \E batch \in Responses :
       /\ batch_data' = batch
       /\ pages_requested' = pages_requested + 1
       /\ IF NoData(batch) \/ NoRecordsField(batch)
          THEN /\ pc' = "aggregate"
               /\ UNCHANGED <<raw_data, total_fetched, offset>>
          ELSE LET records == batch.records
                   n       == IngestCount(records, total_fetched, max_records)
               IN IF RecordsKeyError(batch)
                  THEN /\ pc' = "raised"
                       /\ UNCHANGED <<raw_data, total_fetched, offset>>
                  ELSE IF records = <<>>
                  THEN /\ pc' = "aggregate"
                       /\ UNCHANGED <<raw_data, total_fetched, offset>>
                  ELSE /\ raw_data' = Ingest(raw_data, records, n)
                       /\ total_fetched' = total_fetched + n
                       /\ offset' = offset + limit
                       /\ pc' = IF Len(records) < limit THEN "aggregate"
                                ELSE "fetch"
  /\ UNCHANGED <<openweather_api_key, aggregated_data, weather_data, max_records>>
  /\ UNCHANGED agg_vars
  /\ UNCHANGED out_vars

\* the while condition is false
FetchDone ==
  /\ pc = "fetch"
  /\ ~LoopGuard(total_fetched, max_records)
  /\ pc' = "aggregate"
  /\ UNCHANGED <<openweather_api_key, raw_data, aggregated_data, weather_data>>
  /\ UNCHANGED fetch_vars
  /\ UNCHANGED agg_vars
  /\ UNCHANGED out_vars

\* `self.aggregated_data = self.aggregate_by_station(self.raw_data)`, then
\* the general weather and the return; an exception of the aggregation
\* leaves the call
AggregateAndReturn ==
  /\ pc = "aggregate"
  /\ LET r == FoldRecords(raw_data)
     IN IF r.raised
        THEN /\ pc' = "raised"
             /\ UNCHANGED <<aggregated_data, weather_data>>
        ELSE /\ pc' = "done"
             /\ \E weather \in [1..Len(r.station_data) -> WeatherOutcomes] :
                  aggregated_data' =
                    EmitAll(r.station_data, openweather_api_key, weather, 1)
             /\ \E outcome \in WeatherOutcomes :
                  weather_data' = IF openweather_api_key
                                  THEN fetch_weather_data(outcome) ELSE <<>>
  /\ UNCHANGED <<openweather_api_key, raw_data>>
  /\ UNCHANGED fetch_vars
  /\ UNCHANGED agg_vars
  /\ UNCHANGED out_vars

(***************************************************************************)
(* save_to_csv: the data frame of self.aggregated_data, its empty columns  *)
(* dropped, its columns put in order, written as one table.  The file      *)
(* system accepts the write.                                               *)
(***************************************************************************)
\* pandas counts None and NaN as missing
isna(v) == v = None \/ v = NaN

\* `pd.DataFrame(self.aggregated_data)`: the columns are the keys of all
\* rows, and a row has NaN where it lacks the key
FrameColumns(rows) == UNION {DOMAIN rows[i] : i \in 1..Len(rows)}

Cell(row, col) == IF col \in DOMAIN row THEN row[col] ELSE NaN

\* `df.dropna(axis=1, how='all')`: the columns left
dropna(rows) ==
  {col \in FrameColumns(rows) : \E i \in 1..Len(rows) : ~isna(Cell(rows[i], col))}

base_cols ==
  <<"station_name", "city", "state", "latitude", "longitude", "last_update",
    "total_pollutants_monitored">>

\* the characters of column names in code point order
CodePoints ==
  " -./0123456789ABCDEFGHIJKLMNOPQRSTUVWXYZ_abcdefghijklmnopqrstuvwxyz"

ord ==
  [c \in {Char(CodePoints, k) : k \in 1..Len(CodePoints)} |->
     CHOOSE k \in 1..Len(CodePoints) : Char(CodePoints, k) = c]

\* str.__lt__: the first differing character decides, a proper prefix is less
RECURSIVE StrLess(_, _)
StrLess(a, b) ==
  IF b = "" THEN FALSE
  ELSE IF a = "" THEN TRUE
  ELSE IF Char(a, 1) = Char(b, 1) THEN StrLess(Rest(a), Rest(b))
  ELSE ord[Char(a, 1)] < ord[Char(b, 1)]

\* `pollutant_cols.sort()`
RECURSIVE sort(_)
sort(cols) ==
  IF cols = {} THEN <<>>
  ELSE LET least == CHOOSE a \in cols : \A b \in cols \ {a} : StrLess(a, b)
       IN <<least>> \o sort(cols \ {least})

\* `df[final_cols]` raises KeyError when a column of final_cols is not a
\* column of the frame
SelectKeyError(final_cols, columns) ==
  \E k \in 1..Len(final_cols) : final_cols[k] \notin columns

\* the table written, None when nothing is written: no aggregated data, or
\* an exception caught by the except clause
save_to_csv(rows) ==
  IF rows = <<>> THEN None
  ELSE LET columns        == dropna(rows)
           pollutant_cols == sort({col \in columns :
                                     \A k \in 1..Len(base_cols) : base_cols[k] # col})
           final_cols     == base_cols \o pollutant_cols
       IN IF SelectKeyError(final_cols, columns) THEN None
          ELSE [kind    |-> "csv",
                columns |-> final_cols,
                rows    |-> [i \in 1..Len(rows) |->
                               [col \in {final_cols[k] : k \in 1..Len(final_cols)} |->
                                  Cell(rows[i], col)]]]

\* one call of save_to_csv after fetch_all_data has returned
SaveToCsv ==
  /\ pc = "done"
  /\ pc' = "saved"
  /\ csv_file' = save_to_csv(aggregated_data)
  /\ UNCHANGED <<label, normalized, openweather_api_key, raw_data,
                 aggregated_data, weather_data>>
  /\ UNCHANGED fetch_vars
  /\ UNCHANGED agg_vars

Next == FetchPage \/ FetchDone \/ AggregateAndReturn \/ SaveToCsv

Spec == Init /\ [][Next]_vars

\* the run is one sequential thread and the blocking calls of the loop are
\* bounded (the request by its timeout, the pause between pages by its
\* length): the loop takes its next iteration, or leaves, when it can
SpecFair ==
  Init /\ [][Next]_vars /\ WF_vars(FetchPage) /\ WF_vars(FetchDone)

(***************************************************************************)
(* Properties of fetch_all_data, checked under Spec.                       *)
(***************************************************************************)
\* C9: the records ingested into raw_data never exceed max_records by more
\* than one page size minus one, and no page is requested once the
\* ingested count has reached max_records.
C9_IngestBoundedByCap ==
  /\ [](Len(raw_data) <= max_records + limit - 1)
  /\ [][pages_requested' # pages_requested => Len(raw_data) < max_records]_vars

\* the cap of one page and one record is reached on the first record of
\* the second full page, whose other records are left out
C9_Witness ==
  /\ pc = "aggregate"
  /\ max_records = limit + 1
  /\ pages_requested = 2
  /\ batch_data # None
  /\ "records" \in batch_data.keys
  /\ Len(batch_data.records) = limit
  /\ Len(raw_data) = max_records

\* the batch is no data at all or a body without a `records` field
IsFailure(batch) ==
  batch = None \/ batch.keys = {} \/ "records" \notin batch.keys

\* C10: a page that fails or comes without a `records` field ends the
\* pagination without raising and with raw_data as it was, raw_data then
\* holds every record of the pages before it, and the call, when it
\* returns, returns the stations of those records.
C10_FailedPageKeepsRecords ==
  /\ [][(pc = "fetch" /\ pages_requested' # pages_requested
           /\ IsFailure(batch_data'))
          => (pc' = "aggregate" /\ raw_data' = raw_data)]_vars
  /\ []((pages_requested >= 1 /\ IsFailure(batch_data))
          => Len(raw_data) = (pages_requested - 1) * limit)
  /\ []((pages_requested >= 1 /\ IsFailure(batch_data) /\ pc = "done")
          => /\ Len(aggregated_data) = Len(ExpectedStations)
             /\ \A n \in 1..Len(aggregated_data) :
                  LET r == raw_data[ExpectedStations[n]]
                  IN /\ aggregated_data[n]["station_name"] =
                          Str(strip(r.station_name))
                     /\ aggregated_data[n]["latitude"] = FloatOrNone(r.latitude)
                     /\ aggregated_data[n]["longitude"] = FloatOrNone(r.longitude))

\* the second page failed after a full first page, whose hundred records
\* are kept and whose station is returned
C10_Witness ==
  /\ pc = "done"
  /\ pages_requested = 2
  /\ IsFailure(batch_data)
  /\ Len(raw_data) = limit
  /\ Len(aggregated_data) = 1

(***************************************************************************)
(* Termination of the pagination loop, checked under SpecFair.             *)
(***************************************************************************)
\* C13: every iteration of the pagination loop either ends the loop or
\* appends at least one record to raw_data and moves the offset one page
\* on, and every run reaches the aggregation.
C13_PaginationTerminates ==
  /\ [][(pc = "fetch" /\ pages_requested' # pages_requested)
          => \/ pc' # "fetch"
             \/ /\ Len(raw_data') >= Len(raw_data) + 1
                /\ total_fetched' >= total_fetched + 1
                /\ offset' = offset + limit]_vars
  /\ <>(pc = "aggregate")

\* the loop ran through two full pages below the cap and ended on the
\* third
C13_Witness ==
  /\ pc = "aggregate"
  /\ pages_requested = 3
  /\ offset >= 2 * limit
  /\ Len(raw_data) >= 2 * limit

(***************************************************************************)
(* Properties of save_to_csv, checked under Spec.                          *)
(***************************************************************************)
\* the seven base columns as the specification lists them
SevenBaseColumns ==
  <<"station_name", "city", "state", "latitude", "longitude", "last_update",
    "total_pollutants_monitored">>

\* the column holds no value in any row of aggregated_data
EmptyForEveryStation(col) ==
  \A i \in 1..Len(aggregated_data) :
     \/ col \notin DOMAIN aggregated_data[i]
     \/ aggregated_data[i][col] \in {None, NaN}

\* C12: whenever aggregated_data is non-empty, save_to_csv writes a table
\* with one row per station of aggregated_data, whose columns are the seven
\* base columns followed, in ascending order, by exactly the other columns
\* that are not empty for every station.
C12_CsvBaseThenSortedColumns ==
  (pc = "saved" /\ aggregated_data # <<>>) =>
    /\ csv_file # None
    /\ Len(csv_file.rows) = Len(aggregated_data)
    /\ Len(csv_file.columns) >= Len(SevenBaseColumns)
    /\ SubSeq(csv_file.columns, 1, Len(SevenBaseColumns)) = SevenBaseColumns
    /\ \A j, k \in (Len(SevenBaseColumns) + 1)..Len(csv_file.columns) :
         j < k => StrLess(csv_file.columns[j], csv_file.columns[k])
    /\ {csv_file.columns[k] :
          k \in (Len(SevenBaseColumns) + 1)..Len(csv_file.columns)}
         = {col \in UNION {DOMAIN aggregated_data[i] :
                              i \in 1..Len(aggregated_data)} :
              /\ \A k \in 1..Len(SevenBaseColumns) : SevenBaseColumns[k] # col
              /\ ~EmptyForEveryStation(col)}

(***************************************************************************)
(* SpecNorm: one call of normalize_pollutant_name on a string label.       *)
(***************************************************************************)
\* the characters the generated labels are made of
LabelChars == {"P", "b", "O", "3", "-", " ", "."}

\* every string of at most n characters of LabelChars
RECURSIVE StringsUpTo(_)
StringsUpTo(n) ==
  IF n = 0 THEN {""}
  ELSE LET S == StringsUpTo(n - 1)
       IN S \cup {s \o c : s \in S, c \in LabelChars}

\* labels the upstream dataset uses or could use that are close to a key
\* of pollutant_map without being one
NearLabels ==
  {"pm2.5", "PM 2.5", "Pm10", "ozone", "OZONE", "o3", "Nh3", "ammonia",
   "lead", "MP Xylene", "mp-xylene", "Eth-benzene", "Eth Benzene",
   "Carbon-Monoxide", "Nitric Oxide", "NOx", "p-Xylene"}

Labels == DOMAIN pollutant_map \cup NearLabels \cup StringsUpTo(MaxLabelLen)

InitNorm ==
  /\ pc = "normalize"
  /\ label \in Labels
  /\ normalized = None
  /\ csv_file = None
  /\ openweather_api_key = FALSE
  /\ raw_data = <<>>
  /\ aggregated_data = <<>>
  /\ weather_data = <<>>
  /\ max_records = 0
  /\ offset = 0
  /\ total_fetched = 0
  /\ batch_data = None
  /\ pages_requested = 0
  /\ idx = 0
  /\ station_data = <<>>
  /\ emitted = 0
  /\ aggregated = <<>>

\* the call returns
Normalize ==
  /\ pc = "normalize"
  /\ normalized' = normalize_pollutant_name(label)
  /\ pc' = "normalized"
  /\ UNCHANGED <<label, csv_file, openweather_api_key, raw_data,
                 aggregated_data, weather_data>>
  /\ UNCHANGED fetch_vars
  /\ UNCHANGED agg_vars

NextNorm == Normalize

SpecNorm == InitNorm /\ [][NextNorm]_vars

(***************************************************************************)
(* Properties of normalize_pollutant_name, checked under SpecNorm.         *)
(***************************************************************************)
\* the synonym table as the specification lists it: label, canonical key
SynonymTable ==
  { <<"PM2.5", "pm25">>, <<"PM10", "pm10">>, <<"O3", "o3">>,
    <<"Ozone", "o3">>, <<"NO2", "no2">>, <<"SO2", "so2">>, <<"CO", "co">>,
    <<"NH3", "nh3">>, <<"Ammonia", "nh3">>, <<"Pb", "pb">>, <<"Lead", "pb">>,
    <<"Benzene", "benzene">>, <<"Toluene", "toluene">>,
    <<"Xylene", "xylene">>, <<"MP-Xylene", "mp_xylene">>,
    <<"Eth-Benzene", "eth_benzene">> }

\* one character of the fallback: hyphen and space become an underscore,
\* an upper-case letter its lower-case letter, anything else stays
FallbackChar(c) ==
  IF c = "-" \/ c = " " THEN "_"
  ELSE IF \E k \in 1..Len(UpperCase) : Char(UpperCase, k) = c
       THEN Char(LowerCase, CHOOSE k \in 1..Len(UpperCase) : Char(UpperCase, k) = c)
       ELSE c

\* C11: on every string label the call returns a string: for a label of
\* the synonym table its canonical key, for any other label the label
\* character by character in lower case with every hyphen and every space
\* turned into an underscore.
C11_NormalizeIsTableOrFallback ==
  pc = "normalized" =>
    /\ normalized \in STRING
    /\ IF \E p \in SynonymTable : p[1] = label
       THEN \A p \in SynonymTable : p[1] = label => normalized = p[2]
       ELSE /\ Len(normalized) = Len(label)
            /\ \A i \in 1..Len(label) :
                 Char(normalized, i) = FallbackChar(Char(label, i))

\* an unlisted label with upper-case letters and a space
C11_Witness ==
  /\ pc = "normalized"
  /\ label = "MP Xylene"
  /\ normalized = "mp_xylene"

====
